---- MODULE Spec2Model ----
(***************************************************************************)
(* Model of src/script.js: the DOMContentLoaded handler that looks up the  *)
(* hamburger icon, the nav menu and the nav links, and the two click       *)
(* handlers it registers (toggle 'active' on hamburger click, remove       *)
(* 'active' on nav-link click).                                            *)
(***************************************************************************)
EXTENDS Naturals, Sequences, FiniteSets

\* ---- bounds -------------------------------------------------------------
MaxLinks == 2      \* number of distinct .nav-link elements a page may hold
MaxQueue == 2      \* click events waiting in the host's event queue
MaxEvents == 4     \* click events dispatched in one page session

LinkIds == 1..MaxLinks

VARIABLES
    domHamburger,      \* the document holds an element matching .hamburger
    domNavMenu,        \* the document holds an element matching .nav-menu
    domLinks,          \* the .nav-link elements currently in the document
    hamburgerClassList,\* classList of the .hamburger element ({} when absent)
    navMenuClassList,  \* classList of the .nav-menu element ({} when absent)
    initStatus,        \* "pending", "ok" (handler returned), "failed" (threw)
    hamburger,         \* const hamburger: "unset", "null" or "el"
    navMenu,           \* const navMenu:   "unset", "null" or "el"
    navLinks,          \* const navLinks: the NodeList captured at line 4
    hamburgerClick,    \* number of click listeners registered on .hamburger
    linkClick,         \* number of click listeners registered on each link
    queue,             \* pending click events, oldest first
    pc,                \* line the running click handler is about to execute
    cur,               \* the click event being dispatched
    hist               \* the click events dispatched so far

vars == <<domHamburger, domNavMenu, domLinks, hamburgerClassList,
          navMenuClassList, initStatus, hamburger, navMenu, navLinks,
          hamburgerClick, linkClick, queue, pc, cur, hist>>

domVars == <<domHamburger, domNavMenu>>
closureVars == <<initStatus, hamburger, navMenu, navLinks>>
listenerVars == <<hamburgerClick, linkClick>>

\* ---- DOMTokenList -----------------------------------------------------
\* Variant of ClassListToggle: the token is added, never removed
\* (classList.add written for classList.toggle).
ClassListToggleAdds(classList, token) == classList \cup {token}

\* classList.toggle(token): remove the token if present, add it otherwise.
ClassListToggle(classList, token) ==
    IF token \in classList THEN classList \ {token}
                           ELSE classList \cup {token}

\* Variant of ClassListRemove: the token is flipped
\* (classList.toggle written for classList.remove).
ClassListRemoveToggles(classList, token) ==
    IF token \in classList THEN classList \ {token}
                           ELSE classList \cup {token}

\* Variant of ClassListRemove: the whole class attribute is cleared
\* (className = '' written for classList.remove).
ClassListRemoveClears(classList, token) == {}

\* classList.remove(token): remove the token; no effect if it is not there.
ClassListRemove(classList, token) == classList \ {token}

\* document.querySelector: the first matching element, or null.
QuerySelector(present) == IF present THEN "el" ELSE "null"

\* Variant of Throws: every access is guarded (ref?.x), nothing throws.
ThrowsNever(ref) == FALSE

\* A property access on a reference (ref.addEventListener, ref.classList)
\* throws a TypeError exactly when the reference is null.
Throws(ref) == ref = "null"

\* Variant of HostIdle: the host starts a handler while another is running
\* (handlers pre-empt one another).
HostIdleAlways == TRUE

\* The host's dispatch thread is free: each handler runs to completion, so a
\* handler starts only when no other handler is part-way through.
HostIdle == pc = "idle"

\* ---- observation of the two markers ---------------------------------
HamburgerActive == "active" \in hamburgerClassList
NavMenuActive == "active" \in navMenuClassList
Markers == <<HamburgerActive, NavMenuActive>>

\* A click event: target is "hamburger" or "link", link is the link clicked
\* (0 for a hamburger click).  defaultPrevented is the event's flag that
\* cancels the target's default action; the host creates the event with the
\* flag clear.
Click(target, link) ==
    [target |-> target, link |-> link, before |-> Markers, ran |-> 0,
     threw |-> FALSE, defaultPrevented |-> FALSE]

NoEvent == [target |-> "none", link |-> 0, before |-> <<FALSE, FALSE>>,
            ran |-> 0, threw |-> FALSE, defaultPrevented |-> FALSE]

\* ---- initial states ---------------------------------------------------
\* The script sets no class at start-up: the markers are whatever the
\* page's markup gives the two elements.
Init ==
    /\ domHamburger \in BOOLEAN
    /\ domNavMenu \in BOOLEAN
    /\ domLinks \in SUBSET LinkIds
    /\ hamburgerClassList \in
          IF domHamburger THEN {{"hamburger"}, {"hamburger", "active"}}
                          ELSE {{}}
    /\ navMenuClassList \in
          IF domNavMenu THEN {{"nav-menu"}, {"nav-menu", "active"}}
                        ELSE {{}}
    /\ initStatus = "pending"
    /\ hamburger = "unset"
    /\ navMenu = "unset"
    /\ navLinks = {}
    /\ hamburgerClick = 0
    /\ linkClick = [l \in LinkIds |-> 0]
    /\ queue = <<>>
    /\ pc = "idle"
    /\ cur = NoEvent
    /\ hist = <<>>

\* The page as the spec's state machine assumes it: both elements present,
\* neither carrying the marker.
InitClosed ==
    /\ Init
    /\ domHamburger
    /\ domNavMenu
    /\ ~HamburgerActive
    /\ ~NavMenuActive

\* ---- document.addEventListener('DOMContentLoaded', ...) ------------------
\* Lines 2-4 run the three lookups.  Line 6 dereferences hamburger: when it
\* is null the handler throws there and lines 11-16 never run.  navMenu is
\* not dereferenced by the set-up code, only captured by the closures.
\* Variant of ForEachAddListener: every link the page will ever hold gets
\* the listener (a delegated listener instead of one per captured link).
ForEachAddListenerAll(links) == [l \in LinkIds |-> linkClick[l] + 1]

\* Variant of ForEachAddListener: each captured link gets the listener twice
\* (two distinct closures registered per link).
ForEachAddListenerTwice(links) ==
    [l \in LinkIds |-> IF l \in links THEN linkClick[l] + 2 ELSE linkClick[l]]

\* lines 11-16: navLinks.forEach(item => item.addEventListener('click', ...))
\* adds one listener to each link of the captured list and to no other.
ForEachAddListener(links) ==
    [l \in LinkIds |-> IF l \in links THEN linkClick[l] + 1 ELSE linkClick[l]]

DOMContentLoaded ==
    /\ initStatus = "pending"
    /\ HostIdle
    /\ hamburger' = QuerySelector(domHamburger)
    /\ navMenu' = QuerySelector(domNavMenu)
    /\ navLinks' = domLinks
    /\ IF Throws(hamburger')
         THEN /\ initStatus' = "failed"
              /\ UNCHANGED listenerVars
         ELSE /\ hamburgerClick' = hamburgerClick + 1
              /\ linkClick' = ForEachAddListener(navLinks')
              /\ initStatus' = "ok"
    /\ UNCHANGED <<domVars, domLinks, hamburgerClassList, navMenuClassList,
                   queue, pc, cur, hist>>

\* ---- the user and the page ----------------------------------------------
Pending == Len(hist) + Len(queue) + (IF pc = "idle" THEN 0 ELSE 1)

\* A click on the hamburger icon is queued by the host.
ClickHamburger ==
    /\ domHamburger
    /\ Len(queue) < MaxQueue
    /\ Pending < MaxEvents
    /\ queue' = Append(queue, <<"hamburger", 0>>)
    /\ UNCHANGED <<domVars, domLinks, hamburgerClassList, navMenuClassList,
                   closureVars, listenerVars, pc, cur, hist>>

\* A click on a nav link is queued by the host.
ClickLink(l) ==
    /\ l \in domLinks
    /\ Len(queue) < MaxQueue
    /\ Pending < MaxEvents
    /\ queue' = Append(queue, <<"link", l>>)
    /\ UNCHANGED <<domVars, domLinks, hamburgerClassList, navMenuClassList,
                   closureVars, listenerVars, pc, cur, hist>>

\* The page gains a .nav-link element (the script never adds one itself).
AddLink(l) ==
    /\ l \notin domLinks
    /\ domLinks' = domLinks \cup {l}
    /\ UNCHANGED <<domVars, hamburgerClassList, navMenuClassList,
                   closureVars, listenerVars, queue, pc, cur, hist>>

\* ---- event dispatch -----------------------------------------------------
ListenersOf(ev) ==
    IF ev.target = "hamburger" THEN hamburgerClick ELSE linkClick[ev.link]

FirstLine(ev) == IF ev.target = "hamburger" THEN "l7" ELSE "l13"

\* The record of a finished dispatch: the event, and the markers it left.
Finished(ev, after) ==
    [target |-> ev.target, link |-> ev.link, before |-> ev.before,
     ran |-> ev.ran, threw |-> ev.threw,
     defaultPrevented |-> ev.defaultPrevented, after |-> after]

\* The host takes the oldest click off its queue once no handler is running
\* and invokes the listeners registered on the click's target.
Dispatch ==
    /\ HostIdle
    /\ queue # <<>>
    /\ queue' = Tail(queue)
    /\ LET ev == Click(Head(queue)[1], Head(queue)[2])
       IN IF ListenersOf(ev) = 0
            THEN /\ hist' = Append(hist, Finished(ev, Markers))
                 /\ UNCHANGED <<pc, cur>>
            ELSE /\ pc' = FirstLine(ev)
                 /\ cur' = ev
                 /\ UNCHANGED hist
    /\ UNCHANGED <<domVars, domLinks, hamburgerClassList, navMenuClassList,
                   closureVars, listenerVars>>

\* End of one listener invocation: the next listener of the same target
\* runs, or the dispatch is over.  An exception thrown by a listener is
\* reported by the host and does not stop the dispatch.
EndListener(threw, after) ==
    LET ev == [cur EXCEPT !.ran = @ + 1, !.threw = @ \/ threw]
    IN IF ev.ran < ListenersOf(ev)
         THEN /\ pc' = FirstLine(ev)
              /\ cur' = ev
              /\ UNCHANGED hist
         ELSE /\ pc' = "idle"
              /\ cur' = NoEvent
              /\ hist' = Append(hist, Finished(ev, after))

\* ---- hamburger click listener (lines 6-9) --------------------------------
\* Variant of ToggleHamburger: the hamburger is flipped only when the nav
\* menu can be flipped too (the listener is all-or-nothing).
ToggleHamburgerIfNavMenu ==
    IF navMenu = "null" THEN hamburgerClassList
                        ELSE ClassListToggle(hamburgerClassList, "active")

\* the class list line 7 leaves on the hamburger
ToggleHamburger == ClassListToggle(hamburgerClassList, "active")

\* Variant of ToggleNavMenu: the nav menu's marker is copied from the
\* hamburger's (already flipped by line 7) instead of flipped on its own.
ToggleNavMenuCopies ==
    IF "active" \in hamburgerClassList
      THEN navMenuClassList \cup {"active"}
      ELSE navMenuClassList \ {"active"}

\* the class list line 8 leaves on the nav menu
ToggleNavMenu == ClassListToggle(navMenuClassList, "active")

\* line 7: hamburger.classList.toggle('active')
ToggleLine7 ==
    /\ pc = "l7"
    /\ UNCHANGED <<domVars, domLinks, navMenuClassList, closureVars,
                   listenerVars, queue>>
    /\ IF Throws(hamburger)
         THEN /\ UNCHANGED hamburgerClassList
              /\ EndListener(TRUE, Markers)
         ELSE /\ hamburgerClassList' = ToggleHamburger
              /\ pc' = "l8"
              /\ UNCHANGED <<cur, hist>>

\* line 8: navMenu.classList.toggle('active'); the listener ends here
ToggleLine8 ==
    /\ pc = "l8"
    /\ UNCHANGED <<domVars, domLinks, hamburgerClassList, closureVars,
                   listenerVars, queue>>
    /\ IF Throws(navMenu)
         THEN /\ UNCHANGED navMenuClassList
              /\ EndListener(TRUE, Markers)
         ELSE /\ navMenuClassList' = ToggleNavMenu
              /\ EndListener(FALSE, Markers')

\* ---- nav-link click listener (lines 12-15) -------------------------------
\* the class list line 13 leaves on the hamburger
RemoveHamburger == ClassListRemove(hamburgerClassList, "active")

\* the class list line 14 leaves on the nav menu
RemoveNavMenu == ClassListRemove(navMenuClassList, "active")

\* line 13: hamburger.classList.remove('active')
RemoveLine13 ==
    /\ pc = "l13"
    /\ UNCHANGED <<domVars, domLinks, navMenuClassList, closureVars,
                   listenerVars, queue>>
    /\ IF Throws(hamburger)
         THEN /\ UNCHANGED hamburgerClassList
              /\ EndListener(TRUE, Markers)
         ELSE /\ hamburgerClassList' = RemoveHamburger
              /\ pc' = "l14"
              /\ UNCHANGED <<cur, hist>>

\* line 14: navMenu.classList.remove('active'); the listener ends here
RemoveLine14 ==
    /\ pc = "l14"
    /\ UNCHANGED <<domVars, domLinks, hamburgerClassList, closureVars,
                   listenerVars, queue>>
    /\ IF Throws(navMenu)
         THEN /\ UNCHANGED navMenuClassList
              /\ EndListener(TRUE, Markers)
         ELSE /\ navMenuClassList' = RemoveNavMenu
              /\ EndListener(FALSE, Markers')

Next ==
    \/ DOMContentLoaded
    \/ ClickHamburger
    \/ \E l \in LinkIds : ClickLink(l)
    \/ \E l \in LinkIds : AddLink(l)
    \/ Dispatch
    \/ ToggleLine7
    \/ ToggleLine8
    \/ RemoveLine13
    \/ RemoveLine14

Spec == Init /\ [][Next]_vars

SpecClosed == InitClosed /\ [][Next]_vars

\* ======================= properties ======================================
Closed == <<FALSE, FALSE>>
Open == <<TRUE, TRUE>>

BothPresent == domHamburger /\ domNavMenu

\* The dispatched clicks that ran a listener, by target.
Handled(i) == hist[i].ran > 0
HandledToggle(i) == hist[i].target = "hamburger" /\ Handled(i)
HandledLink(i) == hist[i].target = "link" /\ Handled(i)

\* C1 (as stated): after every handled click completes, the hamburger's
\* marker equals the nav menu's marker.
C1_MarkersEqualAfterEveryEvent ==
    \A i \in DOMAIN hist : Handled(i) => hist[i].after[1] = hist[i].after[2]

\* C1 (amended): with both elements present, a handled link click leaves the
\* two markers equal, a handled hamburger click leaves them equal exactly
\* when they were equal before it, and hence a page whose markers start
\* equal never shows them mismatched after a handled click.
C1_MarkersEqualWhenEqualBefore ==
    BothPresent =>
       /\ \A i \in DOMAIN hist :
             /\ HandledLink(i) => hist[i].after[1] = hist[i].after[2]
             /\ HandledToggle(i) =>
                   ((hist[i].after[1] = hist[i].after[2])
                       <=> (hist[i].before[1] = hist[i].before[2]))
       /\ (hist # <<>> /\ hist[1].before[1] = hist[1].before[2]) =>
             \A i \in DOMAIN hist : hist[i].after[1] = hist[i].after[2]

C1_Witness ==
    /\ BothPresent
    /\ \E i \in DOMAIN hist :
          HandledToggle(i) /\ hist[i].before[1] # hist[i].before[2]
    /\ \E i \in DOMAIN hist :
          HandledLink(i) /\ hist[i].before[1] # hist[i].before[2]

\* C2: starting from Closed, after N handled hamburger clicks and no handled
\* link click the state is Open when N is odd and Closed when N is even.
NToggles == Cardinality({i \in DOMAIN hist : HandledToggle(i)})

C2_ParityOfToggleClicks ==
    (pc = "idle" /\ \A i \in DOMAIN hist : ~HandledLink(i)) =>
       Markers = IF NToggles % 2 = 1 THEN Open ELSE Closed

C2_Witness ==
    /\ pc = "idle"
    /\ \A i \in DOMAIN hist : HandledToggle(i)
    /\ NToggles = 3
    /\ Markers = Open

\* C3: every handled link click ends with both markers absent, whatever the
\* markers were before it and whatever clicks preceded it.
C3_LinkClickCloses ==
    \A i \in DOMAIN hist : HandledLink(i) => hist[i].after = Closed

C3_Witness ==
    \E i \in DOMAIN hist, j \in DOMAIN hist :
       /\ j < i
       /\ HandledToggle(j)
       /\ HandledLink(i)
       /\ hist[i].before = Open
       /\ Markers = Closed

\* C4 (as stated): when the hamburger or the nav menu is absent, the set-up
\* handler fails, and no failure happens later in a click.
C4_SetupFailsWhenEitherAbsent ==
    (~domHamburger \/ ~domNavMenu) =>
       /\ initStatus \in {"pending", "failed"}
       /\ \A i \in DOMAIN hist : ~hist[i].threw

\* C4 (amended): when the hamburger is absent the set-up handler fails, no
\* listener is registered and no click fails later; when only the nav menu
\* is absent the set-up handler completes and the failure happens later, in
\* every click listener that runs.
C4_SetupFailsOnlyWithoutHamburger ==
    /\ ~domHamburger =>
          /\ initStatus \in {"pending", "failed"}
          /\ hamburgerClick = 0
          /\ \A l \in LinkIds : linkClick[l] = 0
          /\ \A i \in DOMAIN hist : ~hist[i].threw
    /\ (domHamburger /\ ~domNavMenu) =>
          /\ initStatus \in {"pending", "ok"}
          /\ \A i \in DOMAIN hist : Handled(i) => hist[i].threw

C4_Witness ==
    /\ domHamburger
    /\ ~domNavMenu
    /\ initStatus = "ok"
    /\ \E i \in DOMAIN hist : HandledToggle(i) /\ hist[i].threw
    /\ \E i \in DOMAIN hist : HandledLink(i) /\ hist[i].threw

\* C5 (as stated): when the hamburger or the nav menu is absent, no click
\* changes any marker.
C5_NoMarkerChangeWhenEitherAbsent ==
    (~domHamburger \/ ~domNavMenu) =>
       \A i \in DOMAIN hist : hist[i].after = hist[i].before

\* C5 (amended): when the hamburger is absent no click runs a listener or
\* changes any marker; when only the nav menu is absent a click still
\* changes the hamburger's marker (a hamburger click flips it, a link click
\* clears it) before its listener fails.
C5_NoMarkerChangeWithoutHamburger ==
    /\ ~domHamburger =>
          /\ pc = "idle"
          /\ \A i \in DOMAIN hist :
                ~Handled(i) /\ hist[i].after = hist[i].before
          /\ hist # <<>> => Markers = hist[1].before
    /\ (domHamburger /\ ~domNavMenu) =>
          \A i \in DOMAIN hist :
             /\ HandledToggle(i) =>
                   hist[i].after = <<~hist[i].before[1], FALSE>>
             /\ HandledLink(i) => hist[i].after = Closed

C5_Witness ==
    /\ ~domHamburger
    /\ NavMenuActive
    /\ initStatus = "failed"
    /\ \E i \in DOMAIN hist : hist[i].target = "link"

\* C6: a handled hamburger click on a page holding both elements leaves each
\* marker the negation of its own value before the click, for every pair of
\* values before the click.
C6_ToggleFlipsEachMarker ==
    BothPresent =>
       \A i \in DOMAIN hist :
          HandledToggle(i) =>
             /\ hist[i].after[1] = ~hist[i].before[1]
             /\ hist[i].after[2] = ~hist[i].before[2]

C6_Witness ==
    /\ \E i \in DOMAIN hist : HandledToggle(i) /\ hist[i].before = <<TRUE, FALSE>>
    /\ \E i \in DOMAIN hist : HandledToggle(i) /\ hist[i].before = <<FALSE, TRUE>>

\* C7: two consecutive handled hamburger clicks return both markers to the
\* values they had before the first of the two.
C7_TwoTogglesRestore ==
    \A i \in DOMAIN hist :
       (i + 1 \in DOMAIN hist /\ HandledToggle(i) /\ HandledToggle(i + 1)) =>
          hist[i + 1].after = hist[i].before

C7_Witness ==
    /\ BothPresent
    /\ \E i \in DOMAIN hist :
          /\ i + 1 \in DOMAIN hist
          /\ HandledToggle(i)
          /\ HandledToggle(i + 1)
          /\ hist[i].before = <<TRUE, FALSE>>
    /\ \E i \in DOMAIN hist :
          /\ i + 1 \in DOMAIN hist
          /\ HandledToggle(i)
          /\ HandledToggle(i + 1)
          /\ hist[i].before = <<FALSE, TRUE>>

\* C8: a handled link click on a Closed page leaves it Closed, and a handled
\* link click that directly follows a handled link click changes nothing.
C8_LinkClickIdempotent ==
    \A i \in DOMAIN hist :
       /\ (HandledLink(i) /\ hist[i].before = Closed) => hist[i].after = Closed
       /\ (i + 1 \in DOMAIN hist /\ HandledLink(i) /\ HandledLink(i + 1)) =>
             hist[i + 1].after = hist[i].after

C8_Witness ==
    \E i \in DOMAIN hist :
       /\ i + 2 \in DOMAIN hist
       /\ HandledLink(i)
       /\ hist[i].before = Open
       /\ HandledLink(i + 1)
       /\ HandledLink(i + 2)
       /\ Markers = Closed

\* C9: when the set-up handler finds both elements and no link, it completes
\* without error, no link listener ever runs, no click fails, and every
\* handled hamburger click takes Closed to Open and Open to Closed.
C9_NoLinks ==
    (BothPresent /\ initStatus # "pending" /\ navLinks = {}) =>
       /\ initStatus = "ok"
       /\ pc \notin {"l13", "l14"}
       /\ \A i \in DOMAIN hist :
             /\ ~HandledLink(i)
             /\ ~hist[i].threw
             /\ (HandledToggle(i) /\ hist[i].before = Closed) =>
                   hist[i].after = Open
             /\ (HandledToggle(i) /\ hist[i].before = Open) =>
                   hist[i].after = Closed

C9_Witness ==
    /\ BothPresent
    /\ initStatus = "ok"
    /\ navLinks = {}
    /\ \E i \in DOMAIN hist : HandledToggle(i) /\ hist[i].before = Closed
    /\ \E i \in DOMAIN hist : HandledToggle(i) /\ hist[i].before = Open
    /\ \E i \in DOMAIN hist : hist[i].target = "link"

\* C10: starting from Closed, between handlers the state is Closed or Open;
\* only a handled hamburger click takes Closed to Open, only a handled
\* hamburger click or a handled link click takes Open to Closed, no link
\* click takes the state to Open and no handled link click ends in Open.
C10_TwoStateMachine ==
    /\ pc = "idle" => Markers \in {Closed, Open}
    /\ \A i \in DOMAIN hist :
          /\ hist[i].before \in {Closed, Open}
          /\ hist[i].after \in {Closed, Open}
          /\ (hist[i].before = Closed /\ hist[i].after = Open) =>
                HandledToggle(i)
          /\ (hist[i].before = Open /\ hist[i].after = Closed) =>
                (HandledToggle(i) \/ HandledLink(i))
          /\ hist[i].target = "link" =>
                ~(hist[i].before # Open /\ hist[i].after = Open)
          /\ HandledLink(i) => hist[i].after # Open

C10_Witness ==
    /\ \E i \in DOMAIN hist :
          HandledToggle(i) /\ hist[i].before = Closed /\ hist[i].after = Open
    /\ \E i \in DOMAIN hist :
          HandledToggle(i) /\ hist[i].before = Open /\ hist[i].after = Closed
    /\ \E i \in DOMAIN hist :
          HandledLink(i) /\ hist[i].before = Open /\ hist[i].after = Closed

\* A step of a click listener: the running handler moves off its line.
ListenerStep == pc # "idle" /\ pc' # pc

\* C11: a click handler begins only when no handler is running, so the state
\* between lines 7 and 8 (hamburger flipped, nav menu not yet) is never the
\* state another handler starts from; a running handler's event is not
\* replaced before it ends, and the markers change only in listener steps.
C11_RunToCompletion ==
    [][/\ (pc' \in {"l7", "l13"} /\ pc' # pc) => pc = "idle"
       /\ (pc # "idle" /\ cur' # cur) => (pc \in {"l8", "l14"} /\ pc' = "idle")
       /\ pc \in {"l8", "l14"} => cur.ran = 0
       /\ Markers' # Markers => ListenerStep]_vars

C11_Witness ==
    /\ pc = "l8"
    /\ Len(queue) = 2
    /\ queue[1][1] = "link"
    /\ queue[2][1] = "hamburger"
    /\ cur.before = Closed
    /\ Markers = <<TRUE, FALSE>>

\* C12: until the set-up handler has run no listener is registered and no
\* click runs one or changes a marker; once it has completed, the hamburger
\* and each link it found carry exactly one click listener (and no other
\* link carries any: a second run of the set-up handler would register a
\* second one), so no click applies the toggle or the reset twice.
C12_SetupOnceOneListenerEach ==
    /\ initStatus = "pending" =>
          /\ hamburgerClick = 0
          /\ \A l \in LinkIds : linkClick[l] = 0
          /\ pc = "idle"
          /\ \A i \in DOMAIN hist :
                ~Handled(i) /\ hist[i].after = hist[i].before
          /\ hist # <<>> => Markers = hist[1].before
          /\ <<hamburger, navMenu, navLinks>> = <<"unset", "unset", {}>>
    /\ initStatus = "ok" =>
          /\ hamburgerClick = 1
          /\ \A l \in LinkIds : linkClick[l] = IF l \in navLinks THEN 1 ELSE 0
    /\ initStatus = "failed" =>
          hamburgerClick = 0 /\ \A l \in LinkIds : linkClick[l] = 0
    /\ \A i \in DOMAIN hist : hist[i].ran <= 1
    /\ pc # "idle" => cur.ran = 0

C12_Witness ==
    /\ initStatus = "ok"
    /\ Len(hist) = 4
    /\ hist[1].target = "hamburger" /\ hist[1].ran = 0
    /\ hist[2].target = "link" /\ hist[2].ran = 0
    /\ hist[3].target = "hamburger" /\ hist[3].ran = 1
    /\ hist[4].target = "link" /\ hist[4].ran = 1
    /\ hist[4].link = hist[2].link

\* C13: a listener step changes nothing but the 'active' token of the two
\* class lists: the page's elements and links, the captured references, the
\* registered listeners, the queued clicks and every other class token stay
\* as they were, and a link listener only removes; no dispatched click has
\* its default action (the link's navigation) prevented.
C13_OnlyTheMarkersChange ==
    [][/\ ListenerStep =>
             /\ UNCHANGED <<domVars, domLinks, closureVars, listenerVars,
                            queue>>
             /\ hamburgerClassList' \ {"active"} = hamburgerClassList \ {"active"}
             /\ navMenuClassList' \ {"active"} = navMenuClassList \ {"active"}
             /\ pc \in {"l13", "l14"} =>
                   /\ hamburgerClassList' = hamburgerClassList \ {"active"}
                   /\ navMenuClassList' \in
                         {navMenuClassList, navMenuClassList \ {"active"}}
       /\ ~cur'.defaultPrevented
       /\ \A i \in DOMAIN hist' : ~hist'[i].defaultPrevented]_vars

C13_Witness ==
    /\ BothPresent
    /\ hamburgerClassList = {"hamburger"}
    /\ navMenuClassList = {"nav-menu"}
    /\ queue # <<>>
    /\ \E i \in DOMAIN hist :
          HandledLink(i) /\ hist[i].before = Open /\ ~hist[i].defaultPrevented
    /\ \E i \in DOMAIN hist : HandledLink(i) /\ hist[i].before = Closed

Agree(m) == m[1] = m[2]

\* C14: the script never sets the markers itself, so with both elements
\* present the markers are the page's own until a listener runs (also after
\* the set-up handler has run); a handled hamburger click that starts with
\* the markers different ends with them different, and only a handled link
\* click takes different markers to equal ones.
C14_MismatchSurvivesToggles ==
    BothPresent =>
       /\ (hist # <<>> /\ pc = "idle" /\ \A i \in DOMAIN hist : ~Handled(i)) =>
             Markers = hist[1].before
       /\ (hist # <<>> /\ pc = "idle" /\ ~Agree(hist[1].before)
              /\ \A i \in DOMAIN hist : ~HandledLink(i)) => ~Agree(Markers)
       /\ \A i \in DOMAIN hist :
             /\ (HandledToggle(i) /\ ~Agree(hist[i].before)) =>
                   ~Agree(hist[i].after)
             /\ (~Agree(hist[i].before) /\ Agree(hist[i].after)) =>
                   HandledLink(i)

C14_Witness ==
    /\ BothPresent
    /\ initStatus = "ok"
    /\ Len(hist) = 4
    /\ ~Handled(1) /\ ~Agree(hist[1].before)
    /\ HandledToggle(2) /\ ~Agree(hist[2].after)
    /\ HandledToggle(3) /\ ~Agree(hist[3].after)
    /\ HandledLink(4) /\ Agree(hist[4].after)

\* C15: with the nav menu absent and the hamburger present, every handled
\* click throws after it has changed the hamburger's marker: a hamburger
\* click leaves it flipped, a link click leaves it cleared, and the change
\* is already there when line 8 (line 14) is about to throw.
C15_FailedClickLeavesChange ==
    (domHamburger /\ ~domNavMenu) =>
       /\ \A i \in DOMAIN hist :
             /\ HandledToggle(i) =>
                   hist[i].threw /\ hist[i].after[1] = ~hist[i].before[1]
             /\ HandledLink(i) => hist[i].threw /\ ~hist[i].after[1]
       /\ pc = "l8" => HamburgerActive = ~cur.before[1]
       /\ pc = "l14" => ~HamburgerActive

C15_Witness ==
    /\ domHamburger
    /\ ~domNavMenu
    /\ \E i \in DOMAIN hist :
          /\ HandledToggle(i)
          /\ hist[i].threw
          /\ hist[i].before # hist[i].after
    /\ \E i \in DOMAIN hist :
          /\ HandledLink(i)
          /\ hist[i].threw
          /\ hist[i].before[1]
          /\ ~hist[i].after[1]

\* C16: the links that close the menu are the ones the set-up handler
\* found: a link outside the captured list carries no listener, and a click
\* on it runs none and leaves the markers as they were (Open stays Open).
C16_LaterLinksDoNotClose ==
    /\ \A l \in LinkIds \ navLinks : linkClick[l] = 0
    /\ \A i \in DOMAIN hist :
          (hist[i].target = "link" /\ hist[i].link \notin navLinks) =>
             ~Handled(i) /\ hist[i].after = hist[i].before

C16_Witness ==
    /\ initStatus = "ok"
    /\ navLinks # {}
    /\ Markers = Open
    /\ \E i \in DOMAIN hist :
          /\ hist[i].target = "link"
          /\ hist[i].link \notin navLinks
          /\ hist[i].before = Open
          /\ hist[i].after = Open
          /\ \E j \in DOMAIN hist : j < i /\ HandledToggle(j)

====
